---------------------------- MODULE Spec2Model ----------------------------
(***************************************************************************)
(* A model of video_fetcher.py: the downloader (download_file), the two    *)
(* provider adapters (pexels_search, pixabay_search), the aggregator       *)
(* (fetch) and the pipeline driver (main).                                 *)
(*                                                                         *)
(* The four functions are four small machines that call each other through *)
(* their program counters (mnPc, ftPc, srPc, dlPc).  Each specification    *)
(* enters the program at one function: SpecDL at download_file, SpecSearch *)
(* at an adapter, SpecFetch at fetch, SpecMain at main, SpecName at        *)
(* safe_filename, SpecSelect at the choice of a hit's variant.             *)
(***************************************************************************)
EXTENDS Integers, Sequences, FiniteSets, TLC

VARIABLES
    alive,      \* FALSE once the process has been killed from outside
    env,        \* the providers whose API key is set in the environment
    \* ---- download_file ----
    dlPc,       \* "idle", "start", "loop", "open", "write", "rename", "done", "raised"
    dlUrl,      \* url
    dlDest,     \* dest
    dlRetries,  \* retries
    attempt,    \* attempt
    lastStatus, \* r.status_code of the last response; NoResponse while r is unbound
    dlErr,      \* the exception download_file raised
    fs,         \* the files on disk: path -> content
    endpoint,   \* the endpoint: how many GETs it answers with a non-200 status before its 200
    bodyLen,    \* the number of chunks of the response body
    gets,       \* history: GET requests issued by this call of download_file
    written,    \* the chunks of the body written so far by the running attempt
    renames,    \* history: how many times tmp.replace(dest) ran in this call
    slept,      \* history: total back-off slept in this call, in half seconds
    dest0,      \* history: what was at dest when download_file was called
    \* ---- pexels_search / pixabay_search ----
    srPc,       \* "idle", "start", "loop", "hits", "pageEnd", "done", "raised"
    srProvider, \* which adapter runs: "pexels" or "pixabay"
    srLimit,    \* limit
    srMinWidth, \* min_width
    out,        \* out
    page,       \* page
    pageLen,    \* the number of hits of the page just received
    pageLeft,   \* the hits of that page the for loop has not reached yet
    srErr,      \* the exception the adapter raised
    catalog,    \* the provider: the hits it may serve
    pagesAvail, \* the provider: how many non-empty pages it serves before its empty pages
    srCalls,    \* history: search requests issued since the program started
    expected,   \* history: of the hits this search was served, those that have a variant
                \* of width >= min_width: <<id, greatest width>> of each, in order
    \* ---- fetch ----
    ftPc,       \* "idle", "start", "pexels", "pexels_wait", "pixabay", "pixabay_wait",
                \* "dedup", "done", "raised"
    ftProviders,\* providers
    ftLimit,    \* limit
    ftMinWidth, \* min_width
    pv,         \* pv
    results,    \* results
    deduped,    \* the list fetch returns
    called,     \* history: the adapters fetch has called, in the order of the calls
    \* ---- main ----
    mnPc,       \* "idle", "start", "fetch_wait", "download", "dl_wait", "exit"
    args,       \* the parsed command line: provider, limit, min_width, dry_run
    mnResults,  \* results
    idx,        \* i of the download loop
    meta,       \* metadata.json: whether it exists, and the list written to it
    printed,    \* what main has printed, in order
    exitCode,   \* the exit code of the process, NotExited while it runs
    mnErr,      \* the exception that left main uncaught
    fs0,        \* history: the files on disk when main started
    \* ---- a helper function called on its own ----
    fnPc,       \* "idle", or the function that is to be called, then "again", "done"
    fnArg,      \* its argument
    fnRes       \* the values it has returned, in the order of the calls

dlVars == <<dlPc, dlUrl, dlDest, dlRetries, attempt, lastStatus, dlErr, fs,
            endpoint, bodyLen, gets, written, renames, slept, dest0>>

srVars == <<srPc, srProvider, srLimit, srMinWidth, out, page, pageLen, pageLeft, srErr,
            catalog, pagesAvail, srCalls, expected>>

ftVars == <<ftPc, ftProviders, ftLimit, ftMinWidth, pv, results, deduped, called>>

mnVars == <<mnPc, args, mnResults, idx, meta, printed, exitCode, mnErr, fs0>>

fnVars == <<fnPc, fnArg, fnRes>>

notDl == <<srVars, ftVars, mnVars, fnVars>>     \* what download_file does not touch
notSr == <<dlVars, ftVars, mnVars, fnVars>>     \* what the adapters do not touch
notFt == <<dlVars, mnVars, fnVars>>     \* what fetch and the adapter it calls do not touch
notMn == <<fnVars>>                     \* what main and its callees do not touch

vars == <<alive, env, dlVars, srVars, ftVars, mnVars, fnVars>>

-----------------------------------------------------------------------------
(* Bounds of the model *)

MaxRetries == 4     \* retries is drawn from 0..MaxRetries
MaxChunks == 2      \* a response body has 0..MaxChunks chunks
MaxLimit == 2       \* limit is drawn from 0..MaxLimit
MaxPages == 2       \* a provider serves at most MaxPages non-empty pages
MaxPageLen == 2     \* a page has 0..MaxPageLen hits
MaxVariants == 2    \* a hit has 0..MaxVariants variants
MaxProviders == 2   \* the providers list has 1..MaxProviders names
MaxNameLen == 4     \* a name given to safe_filename has 0..MaxNameLen characters

(* Program constants *)

DefaultRetries == 3 \* download_file(..., retries: int = 3)
BackoffHalves == 3  \* time.sleep(1.5 * attempt): 1.5 s is 3 half seconds
NameMaxLen == 50    \* shorten_name(name, max_len: int = 50)
IndexWidth == 3     \* f"{i:03d}"

-----------------------------------------------------------------------------
(* Values *)

Providers == {"pexels", "pixabay"}
Urls == {1, 2}
NoResponse == 0                 \* r is not bound yet
OkStatus == 200
FailStatuses == {404, 503}      \* the non-200 statuses an endpoint answers with
NoErr == [kind |-> "none", url |-> 0, status |-> 0]
Missing == -1                   \* a field the provider's JSON does not carry (None)
NotExited == -1                 \* the process has not exited

(* File contents are sequences of chunks; a chunk of the body of url u is <<u, i>>. *)
Chunk(u, i) == <<u, i>>
Body(u, n) == [i \in 1..n |-> Chunk(u, i)]
OldContent == <<Chunk(0, 0)>>   \* content left by an earlier run

(* The file system: a function from the paths that exist to their content. *)
Exists(f, p) == p \in DOMAIN f
FileAt(f, p) ==
    IF p \in DOMAIN f THEN [exists |-> TRUE, data |-> f[p]]
    ELSE [exists |-> FALSE, data |-> <<>>]
FsWrite(f, p, c) == [q \in (DOMAIN f) \cup {p} |-> IF q = p THEN c ELSE f[q]]
FsRemove(f, p) == [q \in (DOMAIN f) \ {p} |-> f[q]]
FsReplace(f, from, to) == FsRemove(FsWrite(f, to, f[from]), from)
EmptyFs == [q \in {} |-> <<>>]

(* What a provider serves.  A variant is one entry of video_files (pexels) or of videos
   (pixabay): its width (or Missing), its link and its height.  A hit is its id, its
   title (user.name, tags; empty when it has none) and its variants in the order of the
   JSON. *)
Widths == {1, 2}
MinWidths == {0, 1, 2}
SeqsUpTo(S, n) == UNION {[1..k -> S] : k \in 0..n}
HitsOver(ids, titles, variants) ==
    [id : ids, title : titles, files : SeqsUpTo(variants, MaxVariants)]
(* hits that differ in the widths of their variants *)
WidthHits ==
    HitsOver({1}, {<<"t">>}, [width : Widths \cup {Missing}, link : {1}, height : {1}])

(* hits of one variant that differ in title and url; the title "/" sanitizes to the
   empty string *)
MainHits ==
    [id : {1}, title : {<<"t">>, <<"/">>},
     files : {<<v>> : v \in [width : {2}, link : Urls, height : {1}]}]

(* hits of one variant that differ in id and url *)
UrlHits ==
    [id : {1, 2}, title : {<<"t">>},
     files : {<<v>> : v \in [width : {2}, link : Urls, height : {1}]}]

(* Strings are sequences of characters.  dest.with_suffix(dest.suffix + ".part"): the
   sibling path with ".part" appended *)
TmpPath(dest) == dest \o <<".", "p", "a", "r", "t">>

-----------------------------------------------------------------------------
(* download_file *)

DlRunning == dlPc \in {"start", "loop", "open", "write", "rename"}
DlEnded == dlPc \in {"done", "raised"}

(* The status of the response to the g-th GET of this call. *)
StatusesOf(g) == IF g > endpoint THEN {OkStatus} ELSE FailStatuses

(* dest.parent.mkdir(...); attempt = 0 *)
DlEnter ==
    /\ alive /\ dlPc = "start"
    /\ dlPc' = "loop"
    /\ attempt' = 0
    /\ UNCHANGED <<alive, env, dlUrl, dlDest, dlRetries, lastStatus, dlErr, fs,
                   endpoint, bodyLen, gets, written, renames, slept, dest0, notDl>>

(* while attempt < retries *)
LoopGuardOffByOne == attempt <= dlRetries
LoopGuard == attempt < dlRetries

(* r = requests.get(...); a response arrives.
   200: go on to write the body.  Otherwise attempt += 1; time.sleep(1.5 * attempt). *)
DlGetNext(status) ==
    IF status = OkStatus
    THEN /\ dlPc' = "open"
         /\ UNCHANGED <<attempt, slept>>
    ELSE /\ dlPc' = "loop"
         /\ attempt' = attempt + 1
         /\ slept' = slept + BackoffHalves * (attempt + 1)

DlGet ==
    /\ alive /\ dlPc = "loop"
    /\ LoopGuard
    /\ gets' = gets + 1
    /\ \E status \in StatusesOf(gets + 1) :
          /\ lastStatus' = status
          /\ DlGetNext(status)
    /\ UNCHANGED <<alive, env, dlUrl, dlDest, dlRetries, dlErr, fs,
                   endpoint, bodyLen, written, renames, dest0, notDl>>

(* requests.get raises (connection error, timeout): nothing catches it. *)
DlGetNetError ==
    /\ alive /\ dlPc = "loop"
    /\ LoopGuard
    /\ gets' = gets + 1
    /\ dlPc' = "raised"
    /\ dlErr' = [kind |-> "RequestException", url |-> dlUrl, status |-> 0]
    /\ UNCHANGED <<alive, env, dlUrl, dlDest, dlRetries, attempt, lastStatus, fs,
                   endpoint, bodyLen, written, renames, slept, dest0, notDl>>

(* The loop ends with attempt >= retries:
   raise RuntimeError(f"... {url} -> HTTP {r.status_code}"); with no GET made, r is
   unbound and evaluating the message raises UnboundLocalError instead. *)
ExhaustedError ==
    IF lastStatus = NoResponse
    THEN [kind |-> "UnboundLocalError", url |-> 0, status |-> 0]
    ELSE [kind |-> "RuntimeError", url |-> dlUrl, status |-> lastStatus]

DlExhausted ==
    /\ alive /\ dlPc = "loop"
    /\ ~LoopGuard
    /\ dlPc' = "raised"
    /\ dlErr' = ExhaustedError
    /\ UNCHANGED <<alive, env, dlUrl, dlDest, dlRetries, attempt, lastStatus, fs,
                   endpoint, bodyLen, gets, written, renames, slept, dest0, notDl>>

(* tmp = dest.with_suffix(dest.suffix + ".part"); open(tmp, "wb") creates or truncates tmp *)
DlOpen ==
    /\ alive /\ dlPc = "open"
    /\ fs' = FsWrite(fs, TmpPath(dlDest), <<>>)
    /\ written' = 0
    /\ dlPc' = IF bodyLen = 0 THEN "rename" ELSE "write"
    /\ UNCHANGED <<alive, env, dlUrl, dlDest, dlRetries, attempt, lastStatus, dlErr,
                   endpoint, bodyLen, gets, renames, slept, dest0, notDl>>

(* The path a chunk of the body is written to: f is the open tmp. *)
WritePathDirect == dlDest
WritePath == TmpPath(dlDest)

(* for chunk in r.iter_content(...): f.write(chunk) *)
DlWrite ==
    /\ alive /\ dlPc = "write"
    /\ written < bodyLen
    /\ fs' = FsWrite(fs, WritePath,
                     Append(FileAt(fs, WritePath).data, Chunk(dlUrl, written + 1)))
    /\ written' = written + 1
    /\ dlPc' = IF written + 1 = bodyLen THEN "rename" ELSE "write"
    /\ UNCHANGED <<alive, env, dlUrl, dlDest, dlRetries, attempt, lastStatus, dlErr,
                   endpoint, bodyLen, gets, renames, slept, dest0, notDl>>

(* iter_content raises while the body is streamed: the with block closes tmp and the
   exception leaves download_file; tmp keeps what was written. *)
DlStreamError ==
    /\ alive /\ dlPc = "write"
    /\ dlPc' = "raised"
    /\ dlErr' = [kind |-> "RequestException", url |-> dlUrl, status |-> 0]
    /\ UNCHANGED <<alive, env, dlUrl, dlDest, dlRetries, attempt, lastStatus, fs,
                   endpoint, bodyLen, gets, written, renames, slept, dest0, notDl>>

(* tmp.replace(dest); return *)
DlRenameCopy ==
    /\ alive /\ dlPc = "rename"
    /\ fs' = FsWrite(fs, dlDest, fs[TmpPath(dlDest)])
    /\ renames' = renames + 1
    /\ dlPc' = "done"
    /\ UNCHANGED <<alive, env, dlUrl, dlDest, dlRetries, attempt, lastStatus, dlErr,
                   endpoint, bodyLen, gets, written, slept, dest0, notDl>>
DlRename ==
    /\ alive /\ dlPc = "rename"
    /\ fs' = FsReplace(fs, TmpPath(dlDest), dlDest)
    /\ renames' = renames + 1
    /\ dlPc' = "done"
    /\ UNCHANGED <<alive, env, dlUrl, dlDest, dlRetries, attempt, lastStatus, dlErr,
                   endpoint, bodyLen, gets, written, slept, dest0, notDl>>

DlNext ==
    \/ DlEnter \/ DlGet \/ DlGetNetError \/ DlExhausted
    \/ DlOpen \/ DlWrite \/ DlStreamError \/ DlRename

(* The process is killed (SIGKILL, power loss): nothing runs any more. *)
Kill ==
    /\ alive
    /\ DlRunning
    /\ alive' = FALSE
    /\ UNCHANGED <<env, dlVars, notDl>>


-----------------------------------------------------------------------------
(* The provider adapters: pexels_search and pixabay_search *)

(* x.get("width") or 0 *)
WidthOr0(w) == IF w = Missing THEN 0 ELSE w

(* The order of sort keys: tuples compare lexicographically, as Python's do. *)
TupleGt(a, b) ==
    \E k \in 1..Len(a) : a[k] > b[k] /\ \A j \in 1..(k - 1) : a[j] = b[j]

(* sorted(..., reverse=True) and list.sort(reverse=True): descending by key and stable.
   The element at index i lands behind the elements of greater key and behind those
   of equal key that come before it.  keys[i] is the key of s[i]. *)
SortedDesc(s, keys) ==
    LET n == Len(s)
        pos(i) == 1 + Cardinality({j \in 1..n : TupleGt(keys[j], keys[i])})
                    + Cardinality({j \in 1..(i - 1) : keys[j] = keys[i]})
    IN  [k \in 1..n |-> s[CHOOSE i \in 1..n : pos(i) = k]]

(* next((f for f in files if ...), None): the first element that passes, as a sequence
   of one element, or the empty sequence for None.  passes[i] tells whether s[i] does. *)
FirstWhere(s, passes) ==
    LET hits == {i \in 1..Len(s) : passes[i]}
    IN  IF hits = {} THEN <<>>
        ELSE <<s[CHOOSE i \in hits : \A j \in hits : i <= j]>>

(* pexels: files = sorted(video_files, key=width or 0, reverse=True);
   file = the first with (width or 0) >= min_width *)
PexelsSortedByTuple(files) ==
    SortedDesc(files, [i \in 1..Len(files) |->
                          <<WidthOr0(files[i].width), files[i].link, files[i].height>>])
PexelsSorted(files) ==
    SortedDesc(files, [i \in 1..Len(files) |-> <<WidthOr0(files[i].width)>>])
PexelsPassesStrict(f, minw) == WidthOr0(f.width) > minw
PexelsPasses(f, minw) == WidthOr0(f.width) >= minw
PexelsSelectWidest(files, minw) ==
    LET sorted == PexelsSorted(files)
    IN  FirstWhere(sorted, [i \in 1..Len(sorted) |-> TRUE])
PexelsSelect(files, minw) ==
    LET sorted == PexelsSorted(files)
    IN  FirstWhere(sorted, [i \in 1..Len(sorted) |-> PexelsPasses(sorted[i], minw)])

(* pixabay: candidates = [(width or 0, url, height) ...]; candidates.sort(reverse=True)
   orders the tuples themselves; file = the first with w >= min_width *)
PixabayCandidates(files) ==
    [i \in 1..Len(files) |-> <<WidthOr0(files[i].width), files[i].link, files[i].height>>]
PixabayPassesStrict(c, minw) == c[1] > minw
PixabayPasses(c, minw) == c[1] >= minw
PixabaySelectUnsorted(files, minw) ==
    LET cands == PixabayCandidates(files)
    IN  FirstWhere(cands, [i \in 1..Len(cands) |-> PixabayPasses(cands[i], minw)])
PixabaySelect(files, minw) ==
    LET sorted == SortedDesc(PixabayCandidates(files), PixabayCandidates(files))
    IN  FirstWhere(sorted, [i \in 1..Len(sorted) |-> PixabayPasses(sorted[i], minw)])

(* The decimal digits of a number, as f"{id}" writes it. *)
DigitChars == <<"0", "1", "2", "3", "4", "5", "6", "7", "8", "9">>
RECURSIVE Decimal(_)
Decimal(n) ==
    IF n < 10 THEN <<DigitChars[n + 1]>>
    ELSE Decimal(n \div 10) \o <<DigitChars[(n % 10) + 1]>>

(* name or f"Pexels {id}";  tags or f"Pixabay {id}": an empty title counts as none *)
TitleOf(provider, hit) ==
    IF hit.title # <<>> THEN hit.title
    ELSE IF provider = "pexels"
         THEN <<"P", "e", "x", "e", "l", "s", " ">> \o Decimal(hit.id)
         ELSE <<"P", "i", "x", "a", "b", "a", "y", " ">> \o Decimal(hit.id)

(* safe_filename: each character is kept if c.isalnum() or c in "-_.()[] {}", else
   replaced by "_"; then "_" is stripped from both ends. *)
AlnumChars == {"a", "b", "t", "P", "e", "x", "l", "s", "i", "y", "p", "m", "v",
               "0", "1", "2", "3", "4", "5", "6", "7", "8", "9"}
KeepChars == {"-", "_", ".", "(", ")", "[", "]", " ", "{", "}"}
SafeChar(c) == IF c \in AlnumChars \/ c \in KeepChars THEN c ELSE "_"
RECURSIVE LStrip(_, _)
LStrip(str, c) ==
    IF str # <<>> /\ Head(str) = c THEN LStrip(Tail(str), c) ELSE str
RECURSIVE RStrip(_, _)
RStrip(str, c) ==
    IF str # <<>> /\ str[Len(str)] = c THEN RStrip(SubSeq(str, 1, Len(str) - 1), c) ELSE str
SafeFilenameNoStrip(name) == [i \in 1..Len(name) |-> SafeChar(name[i])]
SafeFilenameStripFirst(name) ==
    LET stripped == RStrip(LStrip(name, "_"), "_")
    IN  [i \in 1..Len(stripped) |-> SafeChar(stripped[i])]
SafeFilename(name) == RStrip(LStrip([i \in 1..Len(name) |-> SafeChar(name[i])], "_"), "_")

(* shorten_name: safe = safe_filename(name); safe[:max_len] when longer *)
ShortenName(name) ==
    LET safe == SafeFilename(name)
    IN  IF Len(safe) > NameMaxLen THEN SubSeq(safe, 1, NameMaxLen) ELSE safe

(* f"{i:03d}": the decimal digits, padded with zeros on the left to three characters *)
RECURSIVE ZeroPad(_, _)
ZeroPad(str, width) == IF Len(str) >= width THEN str ELSE ZeroPad(<<"0">> \o str, width)
ProviderChars(p) ==
    IF p = "pexels" THEN <<"p", "e", "x", "e", "l", "s">>
    ELSE <<"p", "i", "x", "a", "b", "a", "y">>

(* filename = f"{i:03d}_{shorten_name(v['title'])}_{v['provider']}{ext}"; dest = out_dir / filename *)
DestPathNoIndex(i, v) ==
    ShortenName(v.title) \o <<"_">> \o ProviderChars(v.provider) \o <<".", "m", "p", "4">>
DestPath(i, v) ==
    ZeroPad(Decimal(i), IndexWidth) \o <<"_">> \o ShortenName(v.title) \o <<"_">>
        \o ProviderChars(v.provider) \o <<".", "m", "p", "4">>

(* The record appended for a hit: a sequence of one record, or none when no variant
   passes (if not file: continue). *)
RecordOf(provider, hit, minw) ==
    IF provider = "pexels"
    THEN LET sel == PexelsSelect(hit.files, minw)
         IN  IF sel = <<>> THEN <<>>
             ELSE <<[provider |-> "pexels", id |-> hit.id, title |-> TitleOf(provider, hit),
                     width |-> sel[1].width, height |-> sel[1].height,
                     url |-> sel[1].link] >>
    ELSE LET sel == PixabaySelect(hit.files, minw)
         IN  IF sel = <<>> THEN <<>>
             ELSE <<[provider |-> "pixabay", id |-> hit.id, title |-> TitleOf(provider, hit),
                     width |-> sel[1][1], height |-> sel[1][3],
                     url |-> sel[1][2]] >>

SrEnded == srPc \in {"done", "raised"}

(* api_key = os.getenv(...); if not api_key: ... *)
HasKeyAlways(p) == p \in Providers
HasKey(p) == p \in env

(* if not api_key: return []
   else out = []; page = 1; per_page = ... *)
SrEnter ==
    /\ alive /\ srPc = "start"
    /\ out' = <<>>
    /\ IF ~HasKey(srProvider)
       THEN srPc' = "done" /\ UNCHANGED page
       ELSE srPc' = "loop" /\ page' = 1
    /\ UNCHANGED <<alive, env, srProvider, srLimit, srMinWidth, pageLen, pageLeft, srErr,
                   catalog, pagesAvail, srCalls, expected>>
    /\ UNCHANGED notSr

(* while len(out) < limit: ... ; return out *)
SrLoopExit ==
    /\ alive /\ srPc = "loop"
    /\ ~(Len(out) < srLimit)
    /\ srPc' = "done"
    /\ UNCHANGED <<alive, env, srProvider, srLimit, srMinWidth, out, page, pageLen, pageLeft,
                   srErr, catalog, pagesAvail, srCalls, expected>>
    /\ UNCHANGED notSr

(* r = requests.get(url, params={... "page": page}); r.raise_for_status(); data = r.json():
   the provider answers with a page of n hits, none once its pages are used up. *)
SrRequest ==
    /\ alive /\ srPc = "loop"
    /\ Len(out) < srLimit
    /\ srCalls' = srCalls + 1
    /\ \E n \in 0..MaxPageLen :
          /\ n > 0 => page <= pagesAvail
          /\ pageLen' = n
          /\ pageLeft' = n
          /\ srPc' = IF n = 0 THEN "pageEnd" ELSE "hits"
    /\ UNCHANGED <<alive, env, srProvider, srLimit, srMinWidth, out, page, srErr,
                   catalog, pagesAvail, expected>>
    /\ UNCHANGED notSr

(* The request fails: requests.get raises, or the status is not a success and
   r.raise_for_status() raises.  Nothing in the adapter catches it. *)
SrRequestError ==
    /\ alive /\ srPc = "loop"
    /\ Len(out) < srLimit
    /\ srCalls' = srCalls + 1
    /\ \E kind \in {"HTTPError", "RequestException"} :
          srErr' = [kind |-> kind, url |-> 0, status |-> 0]
    /\ srPc' = "raised"
    /\ UNCHANGED <<alive, env, srProvider, srLimit, srMinWidth, out, page, pageLen, pageLeft,
                   catalog, pagesAvail, expected>>
    /\ UNCHANGED notSr

(* A hit has a variant that meets the floor, a missing width counting as 0; the
   greatest width among its variants. *)
Qualifies(hit, minw) == \E i \in 1..Len(hit.files) : WidthOr0(hit.files[i].width) >= minw
GreatestWidth(hit) ==
    CHOOSE w \in {WidthOr0(hit.files[i].width) : i \in 1..Len(hit.files)} :
        \A i \in 1..Len(hit.files) : WidthOr0(hit.files[i].width) <= w

(* for v in data.get("videos", []): one hit of the page.  No variant passes: continue.
   Otherwise out.append({...}); if len(out) >= limit: break *)
SrHit ==
    /\ alive /\ srPc = "hits"
    /\ pageLeft > 0
    /\ pageLeft' = pageLeft - 1
    /\ \E hit \in catalog : \E rec \in {RecordOf(srProvider, hit, srMinWidth)} :
          /\ out' = out \o rec
          /\ expected' = IF Qualifies(hit, srMinWidth)
                         THEN Append(expected, <<hit.id, GreatestWidth(hit)>>)
                         ELSE expected
          /\ srPc' = IF rec # <<>> /\ Len(out) + 1 >= srLimit THEN "pageEnd"
                     ELSE IF pageLeft = 1 THEN "pageEnd"
                     ELSE "hits"
    /\ UNCHANGED <<alive, env, srProvider, srLimit, srMinWidth, page, pageLen, srErr,
                   catalog, pagesAvail, srCalls>>
    /\ UNCHANGED notSr

(* if not data.get("videos") or len(out) >= limit: break *)
PageBreaksNoKept == out = <<>> \/ Len(out) >= srLimit
PageBreaks == pageLen = 0 \/ Len(out) >= srLimit

(* After the for loop: break out of the while loop and return out, or page += 1 *)
SrPageEnd ==
    /\ alive /\ srPc = "pageEnd"
    /\ IF PageBreaks
       THEN srPc' = "done" /\ UNCHANGED page
       ELSE srPc' = "loop" /\ page' = page + 1
    /\ UNCHANGED <<alive, env, srProvider, srLimit, srMinWidth, out, pageLen, pageLeft, srErr,
                   catalog, pagesAvail, srCalls, expected>>
    /\ UNCHANGED notSr

SrNext == SrEnter \/ SrLoopExit \/ SrRequest \/ SrRequestError \/ SrHit \/ SrPageEnd


-----------------------------------------------------------------------------
(* The aggregator: fetch *)

(* p.lower() *)
Lower(p) ==
    CASE p = "Pexels" -> "pexels"
      [] p = "PIXABAY" -> "pixabay"
      [] OTHER -> p

(* for item in results: if item["url"] in seen: continue; seen.add(...);
   deduped.append(item); if len(deduped) >= limit: break *)
RECURSIVE DedupLoop(_, _, _, _, _)
DedupLoop(items, i, seen, acc, limit) ==
    IF i > Len(items) THEN acc
    ELSE IF items[i].url \in seen THEN DedupLoop(items, i + 1, seen, acc, limit)
    ELSE IF Len(acc) + 1 >= limit THEN Append(acc, items[i])
    ELSE DedupLoop(items, i + 1, seen \cup {items[i].url}, Append(acc, items[i]), limit)

DedupNoCap(items, limit) == DedupLoop(items, 1, {}, <<>>, Len(items) + 1)
DedupKeepLast(items, limit) ==
    LET n == Len(items)
        rev(q) == [i \in 1..Len(q) |-> q[Len(q) + 1 - i]]
    IN  rev(DedupLoop(rev(items), 1, {}, <<>>, limit))
Dedup(items, limit) == DedupLoop(items, 1, {}, <<>>, limit)

FtEnded == ftPc \in {"done", "raised"}

(* The adapters in the order fetch tries them (if "pexels" in pv: ...; then
   if "pixabay" in pv: ...), and where fetch goes after each. *)
AdapterOrderSwapped == <<"pixabay", "pexels">>
AdapterOrder == <<"pexels", "pixabay">>
After(p) == IF p = AdapterOrder[1] THEN AdapterOrder[2] ELSE "dedup"

(* results = []; pv = [p.lower() for p in providers] *)
FtEnter ==
    /\ alive /\ ftPc = "start"
    /\ results' = <<>>
    /\ pv' = [i \in 1..Len(ftProviders) |-> Lower(ftProviders[i])]
    /\ ftPc' = AdapterOrder[1]
    /\ UNCHANGED <<alive, env, ftProviders, ftLimit, ftMinWidth, deduped, called>>
    /\ UNCHANGED <<srVars, notFt>>

WaitPc(p) == IF p = "pexels" THEN "pexels_wait" ELSE "pixabay_wait"
InList(p, list) == \E i \in 1..Len(list) : list[i] = p

(* pexels_search(keyword, limit, min_width) is called (pixabay_search alike) *)
SrCall(p, limit, minw) ==
    /\ srPc' = "start"
    /\ srProvider' = p
    /\ srLimit' = limit
    /\ srMinWidth' = minw
    /\ out' = <<>> /\ page' = 0 /\ pageLen' = 0 /\ pageLeft' = 0
    /\ expected' = <<>>
    /\ UNCHANGED <<srErr, catalog, pagesAvail, srCalls>>

(* The adapter's frame is gone once its result (or its exception, kept in srErr) has
   been taken. *)
SrReturned ==
    /\ srPc' = "idle"
    /\ srProvider' = "pexels" /\ srLimit' = 0 /\ srMinWidth' = 0
    /\ out' = <<>> /\ page' = 0 /\ pageLen' = 0 /\ pageLeft' = 0
    /\ expected' = <<>>
    /\ UNCHANGED <<srErr, catalog, pagesAvail, srCalls>>

(* if "pexels" in pv: results.extend(pexels_search(keyword, limit, min_width))
   if "pixabay" in pv: results.extend(pixabay_search(keyword, limit, min_width))
   -- the call *)
FtCall(p) ==
    /\ alive /\ ftPc = p
    /\ IF InList(p, pv)
       THEN /\ SrCall(p, ftLimit, ftMinWidth)
            /\ called' = Append(called, p)
            /\ ftPc' = WaitPc(p)
       ELSE /\ ftPc' = After(p)
            /\ UNCHANGED <<srVars, called>>
    /\ UNCHANGED <<alive, env, ftProviders, ftLimit, ftMinWidth, pv, results, deduped>>
    /\ UNCHANGED notFt

(* -- the adapter returns and results is extended, or it raised and the exception
   leaves fetch *)
FtReturnSwallow(p) ==
    /\ alive /\ ftPc = WaitPc(p)
    /\ SrEnded
    /\ ftPc' = After(p)
    /\ results' = IF srPc = "raised" THEN results ELSE results \o out
    /\ SrReturned
    /\ UNCHANGED <<alive, env, ftProviders, ftLimit, ftMinWidth, pv, deduped, called>>
    /\ UNCHANGED notFt
FtReturn(p) ==
    /\ alive /\ ftPc = WaitPc(p)
    /\ SrEnded
    /\ IF srPc = "raised"
       THEN ftPc' = "raised" /\ UNCHANGED results
       ELSE ftPc' = After(p) /\ results' = results \o out
    /\ SrReturned
    /\ UNCHANGED <<alive, env, ftProviders, ftLimit, ftMinWidth, pv, deduped, called>>
    /\ UNCHANGED notFt

(* the deduplication loop; return deduped *)
FtDedup ==
    /\ alive /\ ftPc = "dedup"
    /\ deduped' = Dedup(results, ftLimit)
    /\ ftPc' = "done"
    /\ UNCHANGED <<alive, env, ftProviders, ftLimit, ftMinWidth, pv, results, called>>
    /\ UNCHANGED <<srVars, notFt>>

FtNext ==
    \/ FtEnter
    \/ FtCall("pexels") \/ FtReturn("pexels")
    \/ FtCall("pixabay") \/ FtReturn("pixabay")
    \/ FtDedup

-----------------------------------------------------------------------------
(* The pipeline driver: main *)

(* What main prints: the two error reports, the summary, the dry-run lines, the progress
   lines and the closing line. *)
MsgNoKey == <<"no API key", 0, <<>>>>
MsgNoResults == <<"no results", 0, <<>>>>
MsgFound(n) == <<"found", n, <<>>>>
(* f"[{i}] {v['provider']}: {v['title']} | {v['width']}x{v['height']} | ..." *)
MsgLine(i, v) == <<"line", i, <<v.provider, v.title, v.width, v.height>>>>
(* f"Đang tải {i}/{len(results)} -> {dest.name}" *)
MsgDownloading(i, name) == <<"downloading", i, name>>
MsgDone == <<"done", 0, <<>>>>

(* fetch has returned: its frame is gone; ftPc keeps how it ended. *)
FtReturned ==
    /\ ftProviders' = <<>> /\ ftLimit' = 0 /\ ftMinWidth' = 0
    /\ pv' = <<>> /\ results' = <<>> /\ deduped' = <<>>
    /\ UNCHANGED <<ftPc, called>>

(* if not (os.getenv("PEXELS_API_KEY") or os.getenv("PIXABAY_API_KEY")):
       print(...); sys.exit(1)
   results = fetch(args.keyword, args.limit, args.provider, args.min_width) -- the call *)
MnCheckKeys ==
    /\ alive /\ mnPc = "start"
    /\ IF env = {}
       THEN /\ printed' = Append(printed, MsgNoKey)
            /\ exitCode' = 1
            /\ mnPc' = "exit"
            /\ UNCHANGED ftVars
       ELSE /\ ftPc' = "start"
            /\ ftProviders' = args.provider
            /\ ftLimit' = args.limit
            /\ ftMinWidth' = args.min_width
            /\ mnPc' = "fetch_wait"
            /\ UNCHANGED <<pv, results, deduped, called, printed, exitCode>>
    /\ UNCHANGED <<alive, env, args, mnResults, idx, meta, mnErr, fs0>>
    /\ UNCHANGED <<dlVars, srVars, notMn>>

(* for i, v in enumerate(results, 1): print(f"[{i}] ...") *)
DryRunLines(list) == [i \in 1..Len(list) |-> MsgLine(i, list[i])]

(* if args.dry_run *)
DryRunIgnored == FALSE
DryRun == args.dry_run

(* fetch returns (or its exception leaves main uncaught: exit code 1).
   if not results: print(...); sys.exit(1)
   out_dir.mkdir(...); json.dump(results, f, ...); print(...)
   if args.dry_run: print a line per result; return *)
MnAfterFetch ==
    /\ alive /\ mnPc = "fetch_wait"
    /\ FtEnded
    /\ FtReturned
    /\ IF ftPc = "raised"
       THEN /\ mnErr' = srErr
            /\ exitCode' = 1
            /\ mnPc' = "exit"
            /\ UNCHANGED <<mnResults, idx, meta, printed>>
       ELSE /\ mnResults' = deduped
            /\ IF deduped = <<>>
               THEN /\ printed' = Append(printed, MsgNoResults)
                    /\ exitCode' = 1
                    /\ mnPc' = "exit"
                    /\ UNCHANGED <<idx, meta, mnErr>>
               ELSE /\ meta' = [exists |-> TRUE, data |-> deduped]
                    /\ IF DryRun
                       THEN /\ printed' = Append(printed, MsgFound(Len(deduped)))
                                           \o DryRunLines(deduped)
                            /\ exitCode' = 0
                            /\ mnPc' = "exit"
                            /\ UNCHANGED <<idx, mnErr>>
                       ELSE /\ printed' = Append(printed, MsgFound(Len(deduped)))
                            /\ idx' = 1
                            /\ mnPc' = "download"
                            /\ UNCHANGED <<exitCode, mnErr>>
    /\ UNCHANGED <<alive, env, args, fs0>>
    /\ UNCHANGED <<dlVars, srVars, notMn>>

(* The endpoints and bodies the downloads of main meet: a 200 at once, a 200 after one
   failure, or failures only; a body of one chunk. *)
MainEndpoints == {0, 1, DefaultRetries}
MainBodyLens == {1}

(* for i, v in enumerate(results, 1): ...; print(...); download_file(v["url"], dest)
   -- the call, with the default retries *)
MnDownload ==
    /\ alive /\ mnPc = "download"
    /\ idx <= Len(mnResults)
    /\ printed' = Append(printed, MsgDownloading(idx, DestPath(idx, mnResults[idx])))
    /\ LET dest == DestPath(idx, mnResults[idx])
       IN  /\ dlPc' = "start"
           /\ dlUrl' = mnResults[idx].url
           /\ dlDest' = dest
           /\ dlRetries' = DefaultRetries
           /\ attempt' = 0 /\ lastStatus' = NoResponse /\ dlErr' = NoErr
           /\ gets' = 0 /\ written' = 0 /\ renames' = 0 /\ slept' = 0
           /\ dest0' = FileAt(fs, dest)
           /\ endpoint' \in MainEndpoints
           /\ bodyLen' \in MainBodyLens
    /\ mnPc' = "dl_wait"
    /\ UNCHANGED <<alive, env, fs, args, mnResults, idx, meta, exitCode, mnErr, fs0>>
    /\ UNCHANGED <<srVars, ftVars, notMn>>

(* download_file returns and the loop goes on, or its exception leaves main uncaught:
   exit code 1 *)
MnAfterDownloadSwallow ==
    /\ alive /\ mnPc = "dl_wait"
    /\ DlEnded
    /\ idx' = idx + 1
    /\ mnPc' = "download"
    /\ UNCHANGED <<exitCode, mnErr>>
    /\ UNCHANGED <<alive, env, args, mnResults, meta, printed, fs0>>
    /\ UNCHANGED <<dlVars, srVars, ftVars, notMn>>
MnAfterDownload ==
    /\ alive /\ mnPc = "dl_wait"
    /\ DlEnded
    /\ IF dlPc = "raised"
       THEN /\ mnErr' = dlErr
            /\ exitCode' = 1
            /\ mnPc' = "exit"
            /\ UNCHANGED idx
       ELSE /\ idx' = idx + 1
            /\ mnPc' = "download"
            /\ UNCHANGED <<exitCode, mnErr>>
    /\ UNCHANGED <<alive, env, args, mnResults, meta, printed, fs0>>
    /\ UNCHANGED <<dlVars, srVars, ftVars, notMn>>

(* the loop is over: print("Hoàn tất. ..."); main returns *)
MnFinish ==
    /\ alive /\ mnPc = "download"
    /\ idx > Len(mnResults)
    /\ printed' = Append(printed, MsgDone)
    /\ exitCode' = 0
    /\ mnPc' = "exit"
    /\ UNCHANGED <<alive, env, args, mnResults, idx, meta, mnErr, fs0>>
    /\ UNCHANGED <<dlVars, srVars, ftVars, notMn>>

MnNext == MnCheckKeys \/ MnAfterFetch \/ MnDownload \/ MnAfterDownload \/ MnFinish

-----------------------------------------------------------------------------
(* The machines at rest *)

DlIdle ==
    /\ dlPc = "idle" /\ dlUrl = 0 /\ dlDest = <<>> /\ dlRetries = 0 /\ attempt = 0
    /\ lastStatus = NoResponse /\ dlErr = NoErr /\ fs = EmptyFs
    /\ endpoint = 0 /\ bodyLen = 0 /\ gets = 0 /\ written = 0 /\ renames = 0
    /\ slept = 0 /\ dest0 = FileAt(EmptyFs, <<>>)

SrIdle ==
    /\ srPc = "idle" /\ srProvider = "pexels" /\ srLimit = 0 /\ srMinWidth = 0
    /\ out = <<>> /\ page = 0 /\ pageLen = 0 /\ pageLeft = 0 /\ srErr = NoErr
    /\ srCalls = 0 /\ expected = <<>>

FtIdle ==
    /\ ftPc = "idle" /\ ftProviders = <<>> /\ ftLimit = 0 /\ ftMinWidth = 0
    /\ pv = <<>> /\ results = <<>> /\ deduped = <<>> /\ called = <<>>

MnIdle ==
    /\ mnPc = "idle"
    /\ args = [provider |-> <<>>, limit |-> 0, min_width |-> 0, dry_run |-> FALSE]
    /\ mnResults = <<>> /\ idx = 0 /\ meta = [exists |-> FALSE, data |-> <<>>]
    /\ printed = <<>> /\ exitCode = NotExited /\ mnErr = NoErr
    /\ fs0 = EmptyFs

FnIdle == fnPc = "idle" /\ fnArg = <<>> /\ fnRes = <<>>

-----------------------------------------------------------------------------
(* An adapter called on its own: either provider, with or without its API key, any
   limit and min_width, a provider with 0..MaxPages non-empty pages. *)

InitSearch ==
    /\ alive = TRUE
    /\ env \in SUBSET Providers
    /\ DlIdle
    /\ srPc = "start"
    /\ srProvider \in Providers
    /\ srLimit \in 0..MaxLimit
    /\ srMinWidth \in MinWidths
    /\ out = <<>> /\ page = 0 /\ pageLen = 0 /\ pageLeft = 0 /\ srErr = NoErr
    /\ srCalls = 0 /\ expected = <<>>
    /\ catalog = WidthHits
    /\ pagesAvail \in 0..MaxPages
    /\ FtIdle
    /\ MnIdle
    /\ FnIdle

NextSearch == SrNext

SpecSearch == InitSearch /\ [][NextSearch]_vars

(* The adapter's steps are taken as long as one is possible: the program runs. *)
LiveSearch == SpecSearch /\ WF_vars(NextSearch)

-----------------------------------------------------------------------------
(* fetch called on its own: any list of 1..MaxProviders provider names, any keys in the
   environment, any limit; providers whose hits share urls. *)

ProviderLists ==
    (SeqsUpTo(Providers, MaxProviders) \ {<<>>}) \cup {<<"Pexels">>, <<"PIXABAY", "pexels">>}

InitFetch ==
    /\ alive = TRUE
    /\ env \in SUBSET Providers
    /\ DlIdle
    /\ SrIdle /\ catalog = UrlHits /\ pagesAvail \in {0, 1}
    /\ ftPc = "start"
    /\ ftProviders \in ProviderLists
    /\ ftLimit \in 0..MaxLimit
    /\ ftMinWidth \in {2}
    /\ pv = <<>> /\ results = <<>> /\ deduped = <<>> /\ called = <<>>
    /\ MnIdle
    /\ FnIdle

NextFetch == FtNext \/ SrNext

SpecFetch == InitFetch /\ [][NextFetch]_vars

-----------------------------------------------------------------------------
(* main: any keys in the environment, any command line (list of providers, limit,
   dry run or not), providers whose hits share urls and titles, an output directory that
   is empty or holds the first file of an earlier run of the same search. *)

StalePath ==
    DestPath(1, [provider |-> "pexels", title |-> <<"t">>])

InitMain ==
    /\ alive = TRUE
    /\ env \in SUBSET Providers
    /\ dlPc = "idle" /\ dlUrl = 0 /\ dlDest = <<>> /\ dlRetries = 0 /\ attempt = 0
    /\ lastStatus = NoResponse /\ dlErr = NoErr
    /\ endpoint = 0 /\ bodyLen = 0 /\ gets = 0 /\ written = 0 /\ renames = 0
    /\ slept = 0 /\ dest0 = FileAt(EmptyFs, <<>>)
    /\ fs \in {EmptyFs, [p \in {StalePath} |-> OldContent]}
    /\ fs0 = fs
    /\ SrIdle /\ catalog = MainHits /\ pagesAvail \in {0, 1}
    /\ FtIdle
    /\ mnPc = "start"
    /\ args \in [provider : ProviderLists, limit : 0..MaxLimit, min_width : {2},
                  dry_run : BOOLEAN]
    /\ mnResults = <<>> /\ idx = 0 /\ meta = [exists |-> FALSE, data |-> <<>>]
    /\ printed = <<>> /\ exitCode = NotExited /\ mnErr = NoErr
    /\ FnIdle

NextMain == MnNext \/ FtNext \/ SrNext \/ DlNext

SpecMain == InitMain /\ [][NextMain]_vars

-----------------------------------------------------------------------------
(* safe_filename called on its own, then on its own result: any name of up to MaxNameLen
   characters: letters, digits, kept punctuation, the underscore, and characters that
   are replaced. *)

NameChars == {"a", "1", "_", "/", ".", " "}

(* safe_filename(name) *)
SfCall ==
    /\ alive /\ fnPc = "safe_filename"
    /\ fnRes' = <<SafeFilename(fnArg)>>
    /\ fnPc' = "again"
    /\ UNCHANGED <<alive, env, fnArg, dlVars, srVars, ftVars, mnVars>>

(* safe_filename(safe_filename(name)) *)
SfAgain ==
    /\ alive /\ fnPc = "again"
    /\ fnRes' = Append(fnRes, SafeFilename(fnRes[1]))
    /\ fnPc' = "done"
    /\ UNCHANGED <<alive, env, fnArg, dlVars, srVars, ftVars, mnVars>>

InitName ==
    /\ alive = TRUE
    /\ env = {}
    /\ DlIdle
    /\ SrIdle /\ catalog = {} /\ pagesAvail = 0
    /\ FtIdle
    /\ MnIdle
    /\ fnPc = "safe_filename"
    /\ fnArg \in SeqsUpTo(NameChars, MaxNameLen)
    /\ fnRes = <<>>

NextName == SfCall \/ SfAgain

SpecName == InitName /\ [][NextName]_vars

-----------------------------------------------------------------------------
(* The body of an adapter's loop over the hits of a page, on its own: either adapter, any
   min_width, any hit of up to MaxVariants variants that differ in width (or lack one),
   link and height. *)

SelectHits ==
    HitsOver({1}, {<<"t">>}, [width : Widths \cup {Missing}, link : Urls, height : {1, 2}])

(* files = sorted(...); file = next(...); if not file: continue; out.append({...}) *)
SelHit ==
    /\ alive /\ fnPc = "hit"
    /\ fnRes' = <<RecordOf(fnArg.provider, fnArg.hit, fnArg.min_width)>>
    /\ fnPc' = "done"
    /\ UNCHANGED <<alive, env, fnArg, dlVars, srVars, ftVars, mnVars>>

InitSelect ==
    /\ alive = TRUE
    /\ env = Providers
    /\ DlIdle
    /\ SrIdle /\ catalog = {} /\ pagesAvail = 0
    /\ FtIdle
    /\ MnIdle
    /\ fnPc = "hit"
    /\ fnArg \in [provider : Providers, hit : SelectHits, min_width : MinWidths]
    /\ fnRes = <<>>

NextSelect == SelHit

SpecSelect == InitSelect /\ [][NextSelect]_vars

-----------------------------------------------------------------------------
(* download_file called on its own: any url, any retries, any endpoint, a destination
   that is absent or holds an earlier file, a stale .part or none. *)

DlDestPath == <<"v", ".", "m", "p", "4">>

DlCall(url, dest, retries) ==
    /\ dlPc = "start"
    /\ dlUrl = url
    /\ dlDest = dest
    /\ dlRetries = retries
    /\ attempt = 0
    /\ lastStatus = NoResponse
    /\ dlErr = NoErr
    /\ gets = 0
    /\ written = 0
    /\ renames = 0
    /\ slept = 0

InitDL ==
    /\ alive = TRUE
    /\ env = {}
    /\ \E url \in Urls, retries \in 0..MaxRetries : DlCall(url, DlDestPath, retries)
    /\ endpoint \in 0..MaxRetries
    /\ bodyLen \in 0..MaxChunks
    /\ \E present \in SUBSET {DlDestPath, TmpPath(DlDestPath)} :
          fs = [p \in present |-> OldContent]
    /\ dest0 = FileAt(fs, DlDestPath)
    /\ SrIdle /\ catalog = {} /\ pagesAvail = 0
    /\ FtIdle
    /\ MnIdle
    /\ FnIdle

NextDL == DlNext \/ Kill

SpecDL == InitDL /\ [][NextDL]_vars

-----------------------------------------------------------------------------
(* Claims about download_file (SpecDL) *)

DestFile == FileAt(fs, dlDest)
TmpFile == FileAt(fs, TmpPath(dlDest))
CompleteFile == [exists |-> TRUE, data |-> Body(dlUrl, bodyLen)]
(* No request of this call failed with an exception instead of a response. *)
NoNetError == dlErr.kind # "RequestException"
(* Every GET issued so far was answered, and with a non-200 status. *)
AllAnswersFailed == NoNetError /\ lastStatus # OkStatus

(* C1: at every point of every execution of download_file, also one that fails or is
   killed while the body is written, dest is either as it was at the call or holds
   the complete body; the only step that changes what is at dest is the rename of
   the .part file, and it puts the complete body there. *)
C1_DestOnlyByRename ==
    /\ [](DestFile \in {dest0, CompleteFile})
    /\ [][ FileAt(fs', dlDest') # FileAt(fs, dlDest)
             => /\ dlPc = "rename" /\ dlPc' = "done"
                /\ FileAt(fs', dlDest') = CompleteFile ]_vars

(* C1 witness: the download broke off (exception or kill) with part of the body
   written: the partial content is in the .part file and dest is untouched. *)
C1_Witness ==
    /\ dlPc = "raised" \/ ~alive
    /\ written >= 1 /\ written < bodyLen
    /\ TmpFile = [exists |-> TRUE, data |-> Body(dlUrl, written)]
    /\ DestFile = dest0

(* C2: for retries >= 1, when every GET is answered with a non-200 status,
   download_file issues exactly retries GETs, then raises, and dest is never
   created (or changed). *)
C2_AlwaysFailing ==
    (dlRetries >= 1 /\ AllAnswersFailed) =>
        /\ gets <= dlRetries
        /\ dlPc # "done"
        /\ (alive /\ dlPc = "loop" /\ gets < dlRetries => ENABLED DlGet)
        /\ (alive /\ dlPc = "loop" /\ gets = dlRetries => ENABLED DlExhausted /\ ~ENABLED DlGet)
        /\ (dlPc = "raised" => gets = dlRetries /\ dlErr.kind = "RuntimeError")
        /\ DestFile = dest0

(* C2 witness: download_file has raised after retries >= 2 GETs that all failed, and there
   was and is no file at dest. *)
C2_Witness ==
    /\ dlRetries >= 2 /\ AllAnswersFailed
    /\ dlPc = "raised" /\ gets = dlRetries
    /\ ~dest0.exists /\ ~Exists(fs, dlDest)

(* The endpoint answers three consecutive GETs with a non-200 status and the next with 200. *)
ThreeFailuresThenOk == endpoint = 3

(* C3 as stated: with retries = 3 and three failures before the 200, download_file
   ends successfully with the complete body at dest, placed once, and no .part left. *)
C3_Original ==
    (dlRetries = DefaultRetries /\ ThreeFailuresThenOk /\ NoNetError /\ DlEnded) =>
        /\ dlPc = "done"
        /\ DestFile = CompleteFile /\ renames = 1 /\ ~TmpFile.exists

(* C3 amended: when the endpoint answers at most three consecutive GETs with a non-200
   status and the next with 200, download_file ends successfully (complete body at dest,
   placed exactly once, no .part left) exactly when the failures are fewer than retries;
   with retries = 3 and three failures it raises after the third GET, the fourth GET is
   never issued and dest is untouched. *)
C3_SuccessWithinRetries ==
    (endpoint <= 3 /\ NoNetError /\ DlEnded) =>
        /\ endpoint < dlRetries =>
              /\ dlPc = "done" /\ gets = endpoint + 1
              /\ DestFile = CompleteFile /\ renames = 1 /\ ~TmpFile.exists
        /\ (endpoint >= dlRetries /\ dlRetries >= 1) =>
              /\ dlPc = "raised" /\ gets = dlRetries
              /\ DestFile = dest0 /\ renames = 0

(* C3 witness: three failures, then the 200 on the fourth GET of a call with retries = 4,
   and the body is at dest. *)
C3_Witness ==
    /\ ThreeFailuresThenOk /\ dlRetries = 4
    /\ dlPc = "done" /\ gets = 4 /\ bodyLen >= 1
    /\ DestFile = CompleteFile

-----------------------------------------------------------------------------
(* Claims about the adapters (SpecSearch, LiveSearch) *)

(* C7: no record in the result of pexels_search or pixabay_search has a width below
   min_width.  (pexels copies the variant's width as it is: a variant without a width,
   which the filter counts as width 0, can only be kept when min_width is 0.) *)
C7_WidthAtLeastFloor ==
    \A i \in 1..Len(out) :
        /\ WidthOr0(out[i].width) >= srMinWidth
        /\ out[i].width = Missing => srMinWidth = 0

(* C7 witness: an adapter has returned under a floor of at least 1, and its result
   holds a record. *)
C7_Witness ==
    /\ srPc = "done" /\ srMinWidth >= 1
    /\ Len(out) >= 1 /\ out[1].width >= srMinWidth

(* The result as the claim describes it: <<id, width>> of each record. *)
OutKeys == [i \in 1..Len(out) |-> <<out[i].id, WidthOr0(out[i].width)>>]

(* C8: when the provider serves finitely many non-empty pages and then empty ones, and
   fewer than limit of the hits served have a variant of width >= min_width, the search
   ends, after at most one request more than there are non-empty pages, and returns
   exactly the records of those hits, in the order served. *)
C8_PaginationTerminates ==
    /\ [](srCalls <= pagesAvail + 1)
    /\ [](srPc = "done" /\ Len(expected) < srLimit => OutKeys = expected)
    /\ <>SrEnded

(* C8 witness: two non-empty pages and the empty third one were requested, and the
   search returned the one matching hit they held, fewer than limit. *)
C8_Witness ==
    /\ srPc = "done" /\ srCalls = 3 /\ pagesAvail = 2
    /\ Len(expected) = 1 /\ Len(expected) < srLimit
    /\ OutKeys = expected

-----------------------------------------------------------------------------
(* Claims about fetch (SpecFetch) *)

(* The place of a provider in the list as requested (0: not requested). *)
RequestPos(p) ==
    IF InList(p, pv) THEN CHOOSE k \in 1..Len(pv) : pv[k] = p /\ \A j \in 1..(k - 1) : pv[j] # p
    ELSE 0
(* The indices of the records of a list that are the first with their url, ascending. *)
FirstIdx(list, u) == CHOOSE k \in 1..Len(list) : list[k].url = u /\ \A j \in 1..(k - 1) : list[j].url # u
FirstOccurrences(list) == {k \in 1..Len(list) : \A j \in 1..(k - 1) : list[j].url # list[k].url}
(* The k-th smallest element of a set of numbers. *)
Nth(S, k) == CHOOSE x \in S : Cardinality({y \in S : y < x}) = k - 1
Min2(a, b) == IF a <= b THEN a ELSE b
BothInOutput ==
    /\ \E i \in 1..Len(deduped) : deduped[i].provider = "pexels"
    /\ \E i \in 1..Len(deduped) : deduped[i].provider = "pixabay"

(* C4 as stated: the output keeps the order in which the providers were requested:
   a record of a provider requested earlier never comes after one of a provider
   requested later. *)
C4_Original ==
    ftPc = "done" =>
        \A i, j \in 1..Len(deduped) :
            i < j => RequestPos(deduped[i].provider) <= RequestPos(deduped[j].provider)

(* C4 amended: the output keeps one fixed order whatever order the providers were
   requested in: pexels_search is called before pixabay_search, every kept pexels
   record precedes every kept pixabay record, and the output is the first limit
   records, in that order, of the concatenation's first occurrences. *)
C4_PexelsThenPixabay ==
    /\ \A i, j \in 1..Len(called) : i < j => called[i] = "pexels" /\ called[j] = "pixabay"
    /\ ftPc = "done" =>
          /\ \A i, j \in 1..Len(deduped) :
                i < j => ~(deduped[i].provider = "pixabay" /\ deduped[j].provider = "pexels")
          /\ LET first == FirstOccurrences(results)
             IN  /\ Len(deduped) = Min2(ftLimit, Cardinality(first))
                 /\ \A k \in 1..Len(deduped) : deduped[k] = results[Nth(first, k)]

(* C4 witness: pixabay was requested before pexels, and the output holds records of
   both. *)
C4_Witness ==
    /\ ftPc = "done" /\ pv = <<"pixabay", "pexels">>
    /\ BothInOutput

(* C5: the urls of the output are pairwise distinct; each output record is the first
   record of the concatenated adapter results that carries its url; each of the first
   limit distinct urls of the concatenation is in the output exactly once. *)
C5_FirstOccurrenceWins ==
    ftPc = "done" =>
        /\ \A i, j \in 1..Len(deduped) : i # j => deduped[i].url # deduped[j].url
        /\ \A i \in 1..Len(deduped) : deduped[i] = results[FirstIdx(results, deduped[i].url)]
        /\ LET first == FirstOccurrences(results)
           IN  \A k \in 1..Min2(ftLimit, Cardinality(first)) :
                   Cardinality({i \in 1..Len(deduped) :
                                   deduped[i].url = results[Nth(first, k)].url}) = 1

(* C5 witness: both adapters returned a record with the same url, the records differ,
   and the output holds the url once, with the fields of the pexels record. *)
C5_Witness ==
    /\ ftPc = "done"
    /\ \E i, j \in 1..Len(results) :
          /\ i < j /\ results[i].url = results[j].url
          /\ results[i].provider = "pexels" /\ results[j].provider = "pixabay"
          /\ results[i].id # results[j].id
          /\ \E k \in 1..Len(deduped) : deduped[k] = results[i]

(* The number of records of a provider in a list. *)
CountOf(list, p) == Cardinality({i \in 1..Len(list) : list[i].provider = p})

(* C6: for limit >= 1 fetch returns at most limit records, whatever the adapters
   return. *)
C6_AtMostLimit ==
    (ftPc = "done" /\ ftLimit >= 1) => Len(deduped) <= ftLimit

(* C6 witness: under limit = 1 each of the two adapters returned limit records, with
   different urls, and fetch returned one record. *)
C6_Witness ==
    /\ ftPc = "done" /\ ftLimit = 1
    /\ CountOf(results, "pexels") = 1 /\ CountOf(results, "pixabay") = 1
    /\ Cardinality({results[i].url : i \in 1..Len(results)}) = 2
    /\ Len(deduped) = 1

-----------------------------------------------------------------------------
(* Claims about main *)

Exited == mnPc = "exit"
NoCredential == env = {}
FetchRaised == ftPc = "raised"
EmptyResultSet == ftPc = "done" /\ mnResults = <<>>
DownloadRaised == dlPc = "raised"
NoRequestedKey == \A i \in 1..Len(args.provider) : Lower(args.provider[i]) \notin env
NoNetworkCall == srCalls = 0 /\ dlPc = "idle" /\ gets = 0

(* C9, as stated: a run exits with a non-zero code when no credential is configured or
   when the aggregated result set is empty, and with code zero in every other run. *)
C9_Original ==
    Exited => (exitCode # 0 <=> NoCredential \/ EmptyResultSet)

(* C9, amended: a run exits with a non-zero code when no credential is configured, when
   the aggregated result set is empty, and also when a search request or a download
   raises; it exits with code zero exactly in the remaining runs, which are the dry runs
   with results and the runs whose downloads all succeeded. *)
C9_ExitCodes ==
    Exited =>
        /\ exitCode \in {0, 1}
        /\ (exitCode # 0 <=> NoCredential \/ EmptyResultSet \/ FetchRaised \/ DownloadRaised)
        /\ (exitCode = 0 =>
                /\ mnResults # <<>>
                /\ \/ args.dry_run /\ dlPc = "idle"
                   \/ /\ ~args.dry_run
                      /\ \A i \in 1..Len(mnResults) :
                            FileAt(fs, DestPath(i, mnResults[i])) = [exists |-> TRUE, data |-> Body(mnResults[i].url, 1)])

(* C9 witness: a run with a credential and a non-empty result set whose download raised
   has exited. *)
C9_Witness ==
    /\ Exited /\ ~NoCredential /\ mnResults # <<>> /\ DownloadRaised
    /\ exitCode = 1

(* C10, as stated: whenever none of the requested providers has a credential, the run
   ends with the configuration error and a non-zero exit code, without any network
   call. *)
C10_Original ==
    /\ (NoRequestedKey => NoNetworkCall)
    /\ (Exited /\ NoRequestedKey => exitCode # 0 /\ printed = <<MsgNoKey>>)

(* C10, amended: whenever none of the requested providers has a credential, the run
   makes no network call and ends with a non-zero exit code; it reports the
   configuration error when no credential at all is set, and the empty result set when
   only the credential of a provider that was not requested is set. *)
C10_NoRequestedCredential ==
    /\ (NoRequestedKey => NoNetworkCall)
    /\ (Exited /\ NoRequestedKey =>
            /\ exitCode # 0
            /\ printed = IF NoCredential THEN <<MsgNoKey>> ELSE <<MsgNoResults>>)

(* C10 witness: a run with only the credential of the provider that was not requested
   has exited. *)
C10_Witness ==
    /\ Exited /\ NoRequestedKey /\ ~NoCredential
    /\ called # <<>>
    /\ exitCode = 1

(* C11: in a dry run with a non-empty result list download_file is never called and no
   file is written besides metadata.json; when main ends, metadata.json holds the result
   list, and after the summary one numbered line per result has been printed, in result
   order. *)
C11_DryRunNoDownload ==
    /\ (args.dry_run => dlPc = "idle" /\ gets = 0 /\ fs = fs0)
    /\ (Exited /\ args.dry_run /\ mnResults # <<>> =>
            /\ meta = [exists |-> TRUE, data |-> mnResults]
            /\ printed = <<MsgFound(Len(mnResults))>>
                            \o [i \in 1..Len(mnResults) |-> MsgLine(i, mnResults[i])]
            /\ exitCode = 0)

(* C11 witness: a dry run with two results has ended, three lines printed. *)
C11_Witness ==
    /\ Exited /\ args.dry_run /\ Len(mnResults) = 2
    /\ Len(printed) = 3 /\ printed[3][2] = 2
    /\ meta.exists

(* A search request was answered with a non-success status: raise_for_status raised. *)
SearchHttpError == srErr.kind = "HTTPError"

(* C13: once the search request of a requested provider is answered with a non-success
   status, no further search request is made (the failure is not retried and no other
   provider is tried), fetch never returns a list, main takes no result list, writes
   no metadata file and calls no download, and the run ends with that error uncaught;
   also when the other provider's search had succeeded before. *)
C13_SearchFailureAborts ==
    /\ [](SearchHttpError =>
            /\ ftPc # "done" /\ srPc # "done"
            /\ mnResults = <<>> /\ ~meta.exists /\ fs = fs0
            /\ dlPc = "idle" /\ gets = 0
            /\ mnPc \in {"fetch_wait", "exit"}
            /\ (Exited => exitCode = 1 /\ mnErr = srErr /\ printed = <<>>))
    /\ [][SearchHttpError => srCalls' = srCalls /\ called' = called /\ srErr' = srErr]_vars

(* C13 witness: pexels_search returned a record, then the request of pixabay_search
   failed, and the failure has left fetch. *)
C13_Witness ==
    /\ SearchHttpError /\ ftPc = "raised"
    /\ called = <<"pexels", "pixabay">>
    /\ results # <<>> /\ results[1].provider = "pexels"

(* The destination of result j, what is there, and the complete file of result j. *)
DestOf(j) == DestPath(j, mnResults[j])
AtDestOf(j) == FileAt(fs, DestOf(j))
CompleteOf(j) == [exists |-> TRUE, data |-> Body(mnResults[j].url, 1)]
(* The download loop of a run that is not a dry run has begun. *)
Downloading == ~args.dry_run /\ mnPc \in {"download", "dl_wait"}
DownloadFailed == ~args.dry_run /\ Exited /\ DownloadRaised
(* What main has printed when it has started the downloads of results 1..k. *)
PrintedUpTo(k) ==
    <<MsgFound(Len(mnResults))>> \o [j \in 1..k |-> MsgDownloading(j, DestOf(j))]

(* metadata.json holds the full list before the first download starts; the downloads
   run in list order, one at a time: while result idx is downloaded the results before
   it are complete and those after it untouched. *)
InListOrder ==
    /\ (Downloading \/ DownloadFailed =>
            /\ meta = [exists |-> TRUE, data |-> mnResults] /\ mnResults # <<>>
            /\ \A j \in 1..Len(mnResults) :
                  /\ j < idx => AtDestOf(j) = CompleteOf(j)
                  /\ j > idx => AtDestOf(j) = FileAt(fs0, DestOf(j)))
    /\ (~args.dry_run /\ mnPc = "dl_wait" =>
            /\ idx \in 1..Len(mnResults)
            /\ dlDest = DestOf(idx) /\ dlUrl = mnResults[idx].url
            /\ printed = PrintedUpTo(idx))
    /\ (~args.dry_run /\ mnPc = "download" => printed = PrintedUpTo(idx - 1))
    /\ (DownloadFailed => printed = PrintedUpTo(idx))

(* C18, as stated: ... and when the download of result k fails the run aborts at once:
   results 1..k-1 are complete, result k has no file at its destination, and no later
   download is attempted. *)
C18_Original ==
    /\ InListOrder
    /\ (DownloadFailed => ~AtDestOf(idx).exists)

(* C18, amended: ... and when the download of result k fails the run aborts at once:
   results 1..k-1 are complete, the destination of result k is as it was before the
   run (no file, or still the file an earlier run left there), and no later download
   is attempted. *)
C18_DownloadsInOrder ==
    /\ InListOrder
    /\ (DownloadFailed => AtDestOf(idx) = FileAt(fs0, DestOf(idx)))

(* C18 witness: of two results the first was downloaded, the download of the second
   failed, and the run has ended. *)
C18_Witness ==
    /\ DownloadFailed /\ Len(mnResults) = 2 /\ idx = 2
    /\ AtDestOf(1) = CompleteOf(1) /\ ~AtDestOf(2).exists

(* C20: within one run the destinations computed for the results are pairwise distinct,
   also for results of the same title and provider and for titles that sanitize to the
   empty string; the .part path of a result is neither the destination nor the .part
   path of another; and no download finds at its destination a file that an earlier
   download of the run wrote: what is there is what was there when the run started. *)
C20_DistinctDestinations ==
    /\ \A i, j \in 1..Len(mnResults) :
          i # j => /\ DestOf(i) # DestOf(j)
                   /\ TmpPath(DestOf(i)) # DestOf(j)
                   /\ TmpPath(DestOf(i)) # TmpPath(DestOf(j))
    /\ (mnPc = "dl_wait" => dest0 = FileAt(fs0, dlDest))

(* C20 witness: two results of the same provider whose titles both sanitize to the empty
   string have both been downloaded, and each destination holds its own body. *)
C20_Witness ==
    /\ Exited /\ exitCode = 0 /\ ~args.dry_run /\ Len(mnResults) = 2
    /\ mnResults[1].provider = mnResults[2].provider
    /\ mnResults[1].title = <<"/">> /\ mnResults[2].title = <<"/">>
    /\ ShortenName(mnResults[1].title) = <<>>
    /\ AtDestOf(1) = CompleteOf(1) /\ AtDestOf(2) = CompleteOf(2)
    /\ CompleteOf(1) # CompleteOf(2)

-----------------------------------------------------------------------------
(* More claims about download_file (SpecDL) *)

(* download_file has left its loop without a 200: its attempts are used up. *)
GaveUp == dlPc = "raised" /\ NoNetError

(* C19: whenever download_file gives up without a 200, for every retries including
   retries = 0, the error it raises is the downloader's fatal error, which names the
   url and the status of the last response received. *)
C19_FatalErrorNamesUrlAndStatus ==
    GaveUp =>
        /\ dlErr.kind = "RuntimeError"
        /\ dlErr.url = dlUrl
        /\ gets >= 1 => dlErr.status = lastStatus /\ lastStatus \in FailStatuses

(* C12: a GET that fails with a network error (an exception instead of a response, when
   the request is made or while the body is streamed) is retried: download_file fails
   with such an error only after it has made retries attempts. *)
C12_NetworkErrorRetried ==
    (dlPc = "raised" /\ dlErr.kind = "RequestException") => gets >= dlRetries

-----------------------------------------------------------------------------
(* Claims about safe_filename (SpecName) *)

AllowedChars ==
    {"a", "1", "-", "_", ".", "(", ")", "[", "]", "{", "}", " "}

(* C14: for every input string the output of safe_filename holds only allowed
   characters (alphanumerics, - _ . ( ) [ ] { } and the space) and neither starts nor
   ends with an underscore. *)
C14_OnlyAllowedChars ==
    \A k \in 1..Len(fnRes) :
        /\ \A i \in 1..Len(fnRes[k]) : fnRes[k][i] \in AllowedChars
        /\ fnRes[k] # <<>> => fnRes[k][1] # "_" /\ fnRes[k][Len(fnRes[k])] # "_"

(* C14 witness: a name that starts with an underscore and ends with a character that is
   replaced has been sanitized to the letters between them. *)
C14_Witness ==
    /\ fnPc = "again"
    /\ fnArg = <<"_", "a", "/", "/">>
    /\ fnRes = << <<"a">> >>

(* C15: safe_filename(safe_filename(x)) = safe_filename(x) for every input string x. *)
C15_Idempotent ==
    fnPc = "done" => fnRes[2] = fnRes[1]

(* C15 witness: a name whose sanitized form differs from it has been sanitized twice. *)
C15_Witness ==
    /\ fnPc = "done"
    /\ fnArg = <<"/", "a", "/", "1">>
    /\ fnRes[1] = <<"a", "_", "1">> /\ fnRes[2] = fnRes[1]

-----------------------------------------------------------------------------
(* Claims about the choice of a variant (SpecSelect) *)

SelFiles == fnArg.hit.files
SelKept == fnRes[1] # <<>>
SelRecord == fnRes[1][1]
(* The variants whose width is the greatest of the hit, in the order of the provider. *)
Widest == {i \in 1..Len(SelFiles) : WidthOr0(SelFiles[i].width) = GreatestWidth(fnArg.hit)}
FirstWidest == CHOOSE i \in Widest : \A j \in Widest : i <= j

(* C16: a hit is kept iff one of its variants has width >= min_width, a missing width
   counting as 0; the width, height and url of the record of a kept hit are those of
   one variant, and its width is the greatest among the variants of the hit. *)
C16_WidestVariantKept ==
    fnPc = "done" =>
        /\ SelKept <=> \E i \in 1..Len(SelFiles) : WidthOr0(SelFiles[i].width) >= fnArg.min_width
        /\ SelKept =>
              \E i \in Widest :
                  /\ WidthOr0(SelRecord.width) = WidthOr0(SelFiles[i].width)
                  /\ SelRecord.height = SelFiles[i].height
                  /\ SelRecord.url = SelFiles[i].link

(* C16 witness: of two variants the second is the wider, the first is below the floor,
   and the record carries the second. *)
C16_Witness ==
    /\ fnPc = "done" /\ SelKept /\ fnArg.min_width = 2
    /\ Len(SelFiles) = 2 /\ SelFiles[1].width = 1 /\ SelFiles[2].width = 2
    /\ SelFiles[1].link # SelFiles[2].link
    /\ SelRecord.url = SelFiles[2].link

(* Two or more variants share the selected width, and they differ. *)
Tie == SelKept /\ \E i, j \in Widest : SelFiles[i] # SelFiles[j]

(* C17, as stated: when variants share the selected width, either adapter takes the one
   that comes first in the provider's order. *)
C17_Original ==
    (fnPc = "done" /\ Tie) =>
        /\ SelRecord.url = SelFiles[FirstWidest].link
        /\ SelRecord.height = SelFiles[FirstWidest].height

(* C17, amended: when variants share the selected width, pexels_search takes the one
   that comes first in the provider's order; pixabay_search takes the one whose
   (url, height) is the greatest, whatever its place in the provider's order. *)
C17_TieBreak ==
    (fnPc = "done" /\ Tie) =>
        IF fnArg.provider = "pexels"
        THEN /\ SelRecord.url = SelFiles[FirstWidest].link
             /\ SelRecord.height = SelFiles[FirstWidest].height
        ELSE /\ \E i \in Widest : <<SelRecord.url, SelRecord.height>>
                                    = <<SelFiles[i].link, SelFiles[i].height>>
             /\ \A i \in Widest : ~TupleGt(<<SelFiles[i].link, SelFiles[i].height>>,
                                           <<SelRecord.url, SelRecord.height>>)

(* C17 witness: pixabay_search met two variants of the same width and took the second,
   the one of the greater url. *)
C17_Witness ==
    /\ fnPc = "done" /\ Tie /\ fnArg.provider = "pixabay"
    /\ Len(SelFiles) = 2 /\ SelFiles[1].link < SelFiles[2].link
    /\ SelRecord.url = SelFiles[2].link

=============================================================================
